---- MODULE Spec2Model ----
(***************************************************************************)
(* Conversational tool-orchestration pipeline of the todo chatbot backend: *)
(* task tools and their registry, the tool-call parser of the Groq client, *)
(* the agent runner, the context builder and the provider-id mapper.       *)
(***************************************************************************)
EXTENDS Integers, Sequences, FiniteSets, TLC

(***************************************************************************)
(* Bounds of the model.                                                    *)
(***************************************************************************)
MaxTools == 2        \* longest "tools" list the model output carries
MaxStored == 103     \* most messages stored in one conversation
MaxMapped == 3       \* number of distinct provider id strings
MaxTextLen == 4      \* longest free-form response given to the parser
MaxCalls == 2        \* direct tool calls made in a row

(***************************************************************************)
(* Program constants.                                                      *)
(***************************************************************************)
TIMEOUT_SECONDS == 30      \* AgentConfig.TIMEOUT_SECONDS
MaxFieldLen == 1000        \* title / description cap of the task tools
ListDefaultLimit == 100    \* MessageRepository.list_by_conversation(limit=100)
PaginateOver == 100        \* converter: "if more than 100 messages"
PaginateKeep == 30         \* converter: "keep last 30"
IdBase == 1000             \* IDMapper: unique_id = 1000 + counter

Users == {"u1", "u2"}

(***************************************************************************)
(* Python values that arrive in tool parameters.  k is the Python type:    *)
(* "absent" (key not in the dict), "none", "int", "str".                   *)
(***************************************************************************)
Absent == [k |-> "absent", n |-> 0, s |-> ""]
None == [k |-> "none", n |-> 0, s |-> ""]
PyInt(i) == [k |-> "int", n |-> i, s |-> ""]
PyStr(x) == [k |-> "str", n |-> 0, s |-> x]

Truthy(v) == \/ v.k = "int" /\ v.n # 0
             \/ v.k = "str" /\ v.s # ""
IsInt(v) == v.k = "int"
IsStr(v) == v.k = "str"

\* a keyword argument that was not passed takes the function's default
Default(v, d) == IF v.k = "absent" THEN d ELSE v

LongStr == "LONG"    \* stands for a string of MaxFieldLen + 1 characters
PyLen(x) == IF x = "" THEN 0 ELSE IF x = LongStr THEN MaxFieldLen + 1 ELSE 1

\* lower() of the titles and names the model uses
Lower(x) == IF x = "Milk" THEN "milk" ELSE x

(***************************************************************************)
(* Tool parameters: the dict the model emitted under "params".  Every key  *)
(* the tools know is a field; "extra" is a key no tool accepts.            *)
(***************************************************************************)
NoParams ==
  [user_id |-> Absent, task_id |-> Absent, task_name |-> Absent,
   title |-> Absent, description |-> Absent, status |-> Absent,
   extra |-> Absent]

ParamKeys == {"user_id", "task_id", "task_name", "title", "description",
              "status", "extra"}

Present(p) == {key \in ParamKeys : p[key].k # "absent"}

(***************************************************************************)
(* Tool results.  error = "" is a dict without an "error" key.             *)
(***************************************************************************)
ErrorResult(code, ref) ==
  [error |-> code, ref |-> ref, status |-> "", task_id |-> 0, title |-> "",
   listed |-> {}]

OkResult(st, tid, ttl) ==
  [error |-> "", ref |-> 0, status |-> st, task_id |-> tid, title |-> ttl,
   listed |-> {}]

ListResult(st, ids) ==
  [error |-> "", ref |-> 0, status |-> st, task_id |-> 0, title |-> "",
   listed |-> ids]

\* outcome of a tool function: its return value and the task table after it
Outcome(res, tbl) == [result |-> res, tasks |-> tbl]

(***************************************************************************)
(* Task table and TaskRepository.                                          *)
(***************************************************************************)
NewTask(tid, uid, ttl, desc) ==
  [id |-> tid, user_id |-> uid, title |-> ttl, description |-> desc,
   completed |-> FALSE]

NextTaskId(tbl) ==
  IF tbl = {} THEN 1
  ELSE 1 + (CHOOSE m \in {t.id : t \in tbl} : \A t \in tbl : t.id <= m)

\* a read that forgets the owner filter
TaskRead_AnyOwner(tbl, uid, tid) == {t \in tbl : t.id = tid}

\* TaskRepository.read: the row with this id owned by this user, or none
TaskRead(tbl, uid, tid) == {t \in tbl : t.id = tid /\ t.user_id = uid}

\* TaskRepository.update: None arguments leave the column alone
TaskUpdate(tbl, uid, tid, ttl, desc, done) ==
  IF TaskRead(tbl, uid, tid) = {} THEN tbl
  ELSE {IF t.id = tid /\ t.user_id = uid
          THEN [t EXCEPT !.title = IF ttl.k = "none" THEN @ ELSE ttl.s,
                         !.description = IF desc.k = "none" THEN @ ELSE desc,
                         !.completed = IF done = "none" THEN @ ELSE done = "true"]
          ELSE t : t \in tbl}

TaskCreate(tbl, uid, ttl, desc) ==
  tbl \cup {NewTask(NextTaskId(tbl), uid, ttl, desc)}

TaskListByUser(tbl, uid, st) ==
  {t \in tbl : /\ t.user_id = uid
               /\ (st = "pending" => ~t.completed)
               /\ (st = "completed" => t.completed)}

\* the check every tool starts with: not user_id or not isinstance(user_id, str)
InvalidUserId(uid) == ~Truthy(uid) \/ ~IsStr(uid)

(***************************************************************************)
(* The task tools.  Each takes the keyword arguments as a params record    *)
(* (absent keys take the defaults of the signature) and the task table,    *)
(* and gives the returned dict and the table after the call.               *)
(***************************************************************************)
add_task(p, tbl) ==
  LET user_id == p.user_id
      title == p.title
      description == Default(p.description, None)
  IN  IF InvalidUserId(user_id)
        THEN Outcome(ErrorResult("invalid_user_id", 0), tbl)
      ELSE IF ~Truthy(title) \/ ~IsStr(title)
        THEN Outcome(ErrorResult("invalid_title", 0), tbl)
      ELSE IF PyLen(title.s) > MaxFieldLen
        THEN Outcome(ErrorResult("title_too_long", 0), tbl)
      ELSE IF Truthy(description) /\ ~IsStr(description)
        THEN Outcome(ErrorResult("raised", 0), tbl)   \* len() of a number
      ELSE IF Truthy(description) /\ PyLen(description.s) > MaxFieldLen
        THEN Outcome(ErrorResult("description_too_long", 0), tbl)
      ELSE Outcome(OkResult("created", NextTaskId(tbl), title.s),
                   TaskCreate(tbl, user_id.s, title.s, description))

list_tasks(p, tbl) ==
  LET user_id == p.user_id
      status == Default(p.status, PyStr("all"))
  IN  IF InvalidUserId(user_id)
        THEN Outcome(ErrorResult("invalid_user_id", 0), tbl)
      ELSE IF ~(IsStr(status) /\ status.s \in {"all", "pending", "completed"})
        THEN Outcome(ErrorResult("invalid_status", 0), tbl)
      ELSE Outcome(ListResult(status.s,
                     {t.id : t \in TaskListByUser(tbl, user_id.s, status.s)}),
                   tbl)

complete_task(p, tbl) ==
  LET user_id == p.user_id
      task_id == p.task_id
  IN  IF InvalidUserId(user_id)
        THEN Outcome(ErrorResult("invalid_user_id", 0), tbl)
      ELSE IF ~IsInt(task_id) \/ task_id.n <= 0
        THEN Outcome(ErrorResult("invalid_task_id", 0), tbl)
      ELSE IF TaskRead(tbl, user_id.s, task_id.n) = {}
        THEN Outcome(ErrorResult("task_not_found", task_id.n), tbl)
      ELSE LET t == CHOOSE t \in TaskRead(tbl, user_id.s, task_id.n) : TRUE
           IN  Outcome(OkResult("completed", t.id, t.title),
                       TaskUpdate(tbl, user_id.s, task_id.n, None, None, "true"))

\* db.exec(...) on the sqlalchemy.orm Session that SessionLocal makes: the
\* Session has no such method, the AttributeError is caught by the outer
\* handler of delete_task
SessionExecRaises == TRUE

delete_task(p, tbl) ==
  LET user_id == p.user_id
      task_id == Default(p.task_id, None)
      task_name == Default(p.task_name, None)
  IN  IF InvalidUserId(user_id)
        THEN Outcome(ErrorResult("invalid_user_id", 0), tbl)
      ELSE IF ~Truthy(task_id) /\ ~Truthy(task_name)
        THEN Outcome(ErrorResult("missing_params", 0), tbl)
      ELSE IF Truthy(task_id) /\ (~IsInt(task_id) \/ task_id.n <= 0)
        THEN Outcome(ErrorResult("invalid_task_id", 0), tbl)
      ELSE IF Truthy(task_name) /\ ~IsStr(task_name)
        THEN Outcome(ErrorResult("invalid_task_name", 0), tbl)
      ELSE IF Truthy(task_id)
        THEN IF TaskRead(tbl, user_id.s, task_id.n) = {}
               THEN Outcome(ErrorResult("task_not_found", task_id.n), tbl)
               ELSE LET t == CHOOSE t \in TaskRead(tbl, user_id.s, task_id.n) : TRUE
                        rest == {r \in tbl : ~(r.id = task_id.n /\ r.user_id = user_id.s)}
                    IN  Outcome(OkResult("deleted", t.id, t.title), rest)
      ELSE IF SessionExecRaises
        THEN Outcome(ErrorResult("task_deletion_failed", 0), tbl)
      ELSE LET exact == {t \in tbl : t.user_id = user_id.s /\ t.title = task_name.s}
               nocase == {t \in tbl : /\ t.user_id = user_id.s
                                      /\ Lower(t.title) = Lower(task_name.s)}
               found == IF exact # {} THEN exact ELSE nocase
           IN  IF found = {}
                 THEN Outcome(ErrorResult("task_not_found", 0), tbl)
                 ELSE LET t == CHOOSE t \in found : \A r \in found : t.id <= r.id
                      IN  Outcome(OkResult("deleted", t.id, t.title), tbl \ {t})

update_task(p, tbl) ==
  LET user_id == p.user_id
      task_id == p.task_id
      title == Default(p.title, None)
      description == Default(p.description, None)
  IN  IF InvalidUserId(user_id)
        THEN Outcome(ErrorResult("invalid_user_id", 0), tbl)
      ELSE IF ~IsInt(task_id) \/ task_id.n <= 0
        THEN Outcome(ErrorResult("invalid_task_id", 0), tbl)
      ELSE IF title.k = "none" /\ description.k = "none"
        THEN Outcome(ErrorResult("no_updates_provided", 0), tbl)
      ELSE IF title.k # "none" /\ ~IsStr(title)
        THEN Outcome(ErrorResult("invalid_title", 0), tbl)
      ELSE IF title.k # "none" /\ PyLen(title.s) > MaxFieldLen
        THEN Outcome(ErrorResult("title_too_long", 0), tbl)
      ELSE IF description.k # "none" /\ ~IsStr(description)
        THEN Outcome(ErrorResult("invalid_description", 0), tbl)
      ELSE IF description.k # "none" /\ PyLen(description.s) > MaxFieldLen
        THEN Outcome(ErrorResult("description_too_long", 0), tbl)
      ELSE IF TaskRead(tbl, user_id.s, task_id.n) = {}
        THEN Outcome(ErrorResult("task_not_found", task_id.n), tbl)
      ELSE LET after == TaskUpdate(tbl, user_id.s, task_id.n, title,
                                   description, "none")
               t == CHOOSE t \in TaskRead(after, user_id.s, task_id.n) : TRUE
           IN  Outcome(OkResult("updated", t.id, t.title), after)

(***************************************************************************)
(* Tool registry.                                                          *)
(***************************************************************************)
TOOL_REGISTRY ==
  {"add_task", "list_tasks", "complete_task", "delete_task", "update_task"}

\* keyword arguments each tool function accepts / cannot be called without
Accepted(name) ==
  CASE name = "add_task" -> {"user_id", "title", "description"}
    [] name = "list_tasks" -> {"user_id", "status"}
    [] name = "complete_task" -> {"user_id", "task_id"}
    [] name = "delete_task" -> {"user_id", "task_id", "task_name"}
    [] name = "update_task" -> {"user_id", "task_id", "title", "description"}
    [] OTHER -> {}

Required(name) ==
  CASE name = "add_task" -> {"user_id", "title"}
    [] name \in {"complete_task", "update_task"} -> {"user_id", "task_id"}
    [] OTHER -> {"user_id"}

ToolFunc(name, p, tbl) ==
  CASE name = "add_task" -> add_task(p, tbl)
    [] name = "list_tasks" -> list_tasks(p, tbl)
    [] name = "complete_task" -> complete_task(p, tbl)
    [] name = "delete_task" -> delete_task(p, tbl)
    [] OTHER -> update_task(p, tbl)

\* tool_func(**tool_input): a keyword the function does not accept, or a
\* required one that is missing, raises TypeError before the body runs
Raised(tbl) == Outcome(ErrorResult("raised", 0), tbl)

Invoke(tool_name, tool_input, tbl) ==
  IF ~(Present(tool_input) \subseteq Accepted(tool_name))
       \/ ~(Required(tool_name) \subseteq Present(tool_input))
    THEN Raised(tbl)
    ELSE ToolFunc(tool_name, tool_input, tbl)

\* a dispatcher without the handler: the exception reaches the caller
ExceptionToResult_Reraise(out, tbl) == out

\* "except Exception" of call_tool: whatever was raised becomes the
\* structured error tool_execution_failed
ExceptionToResult(out, tbl) ==
  IF out.result.error = "raised"
    THEN Outcome(ErrorResult("tool_execution_failed", 0), tbl)
    ELSE out

\* call_tool: unknown name, TypeError of tool_func(**tool_input) and any
\* exception of the tool become structured errors
call_tool(tool_name, tool_input, tbl) ==
  IF tool_name \notin TOOL_REGISTRY
    THEN Outcome(ErrorResult("tool_not_found", 0), tbl)
    ELSE ExceptionToResult(Invoke(tool_name, tool_input, tbl), tbl)

(***************************************************************************)
(* Model output.  A response is a sequence of tokens: the six spellings of *)
(* the markers the model may produce, prose words, whitespace, and the     *)
(* text between the markers.  That text is carried as the value            *)
(* json.loads gives for it:                                                *)
(*   dk = "invalid"  not JSON (json.loads raises JSONDecodeError)          *)
(*   dk = "scalar"   a number, a string or null                            *)
(*   dk = "list"     a top-level array                                     *)
(*   dk = "dict"     an object; tk is the type of its "tools" value and    *)
(*                   entries what iterating that value yields              *)
(* An entry is a dict (ek = "dict") with a name ("" when the key is        *)
(* missing or empty) and params of type pk, or anything else ("scalar").   *)
(***************************************************************************)
Doc(dk, tk, entries) == [dk |-> dk, tk |-> tk, entries |-> entries]
InvalidDoc == Doc("invalid", "absent", <<>>)
EmptyTools == Doc("dict", "list", <<>>)       \* {"tools": []}

Entry(name, pk, params) == [ek |-> "dict", name |-> name, pk |-> pk, params |-> params]
ScalarEntry == [ek |-> "scalar", name |-> "", pk |-> "absent", params |-> NoParams]

Tok(tt, cs) == [tt |-> tt, cs |-> cs, doc |-> InvalidDoc]
OpenU == Tok("open", "U")       \* <TOOL_CALLS>
OpenL == Tok("open", "L")       \* <tool_calls>
OpenM == Tok("open", "M")       \* <Tool_Calls>
CloseU == Tok("close", "U")     \* </TOOL_CALLS>
CloseL == Tok("close", "L")     \* </tool_calls>
CloseM == Tok("close", "M")     \* </Tool_Calls>
Word == Tok("word", "-")
Ws == Tok("ws", "-")
Json(d) == [tt |-> "json", cs |-> "-", doc |-> d]

Open(c) == Tok("open", c)
Close(c) == Tok("close", c)

\* str.find: position of the first occurrence, 0 for Python's -1
Find(text, tok) ==
  IF \E i \in 1..Len(text) : text[i] = tok
    THEN CHOOSE i \in 1..Len(text) :
           text[i] = tok /\ \A j \in 1..(i - 1) : text[j] # tok
    ELSE 0

\* str.strip
RECURSIVE LStrip(_)
LStrip(text) ==
  IF text # <<>> /\ Head(text) = Ws THEN LStrip(Tail(text)) ELSE text

RECURSIVE RStrip(_)
RStrip(text) ==
  IF text # <<>> /\ text[Len(text)] = Ws
    THEN RStrip(SubSeq(text, 1, Len(text) - 1))
    ELSE text

Strip(text) == RStrip(LStrip(text))

\* json.loads of the text between the markers
JsonLoads(text) ==
  IF Len(text) = 1 /\ text[1].tt = "json" THEN text[1].doc ELSE InvalidDoc

\* GroqClient._parse_tool_calls_from_response.  raised: an exception other
\* than JSONDecodeError / ValueError / AttributeError left the function
\* (len() of a "tools" value that is a number or null).
ParseReturn(d) == [raised |-> FALSE, data |-> d]
ParseRaise == [raised |-> TRUE, data |-> EmptyTools]

_parse_tool_calls_from_response(response) ==
  IF Find(response, OpenU) > 0 \/ Find(response, OpenL) > 0
    THEN LET upper == Find(response, OpenU) > 0
             start_marker == IF upper THEN Find(response, OpenU)
                             ELSE Find(response, OpenL)
             end_marker == IF upper THEN Find(response, CloseU)
                           ELSE Find(response, CloseL)
         IN  IF start_marker > 0 /\ end_marker > 0
               THEN LET json_str == Strip(SubSeq(response, start_marker + 1,
                                                 end_marker - 1))
                        tool_calls_data == JsonLoads(json_str)
                    IN  IF json_str = <<>> THEN ParseReturn(EmptyTools)
                        ELSE IF tool_calls_data.dk \in {"invalid", "scalar", "list"}
                          THEN ParseReturn(EmptyTools)
                        ELSE IF tool_calls_data.tk \in {"int", "none"}
                          THEN ParseRaise
                        ELSE ParseReturn(tool_calls_data)
               ELSE ParseReturn(EmptyTools)
    ELSE ParseReturn(EmptyTools)

\* GroqClient._extract_response_text
_extract_response_text(response) ==
  LET start_upper == Find(response, OpenU)
      start_lower == Find(response, OpenL)
      start == IF start_upper > 0 /\ start_lower > 0
                 THEN IF start_upper < start_lower THEN start_upper ELSE start_lower
               ELSE IF start_upper > 0 THEN start_upper
               ELSE start_lower
  IN  IF start > 0 THEN Strip(SubSeq(response, 1, start - 1)) ELSE response

\* dict.get("tools", []) of the parser's return value, as the runner iterates it
ToolsOf(data) == IF data.tk = "absent" THEN <<>> ELSE data.entries

(***************************************************************************)
(* Conversation and message tables, their repositories, the converter and  *)
(* the context builder.  The message table is kept in insertion order.     *)
(***************************************************************************)
Min(a, b) == IF a < b THEN a ELSE b

Message(mid, cid, uid, role, content, at) ==
  [id |-> mid, conversation_id |-> cid, user_id |-> uid, role |-> role,
   content |-> content, created_at |-> at]

ConversationRead(convs, uid, cid) ==
  {c \in convs : c.id = cid /\ c.user_id = uid}

NextConversationId(convs) ==
  IF convs = {} THEN 1
  ELSE 1 + (CHOOSE m \in {c.id : c \in convs} : \A c \in convs : c.id <= m)

ConversationCreate(convs, uid) ==
  convs \cup {[id |-> NextConversationId(convs), user_id |-> uid]}

\* MessageRepository.create: next id, created_at taken from the clock
MessageCreate(msgs, uid, cid, role, content, at) ==
  Append(msgs, Message(Len(msgs) + 1, cid, uid, role, content, at))

\* a query without its WHERE clause
Filter_AllRows(msgs, cid, uid) == msgs

\* WHERE conversation_id = cid [AND user_id = uid]; uid = "" is user_id=None
Filter(msgs, cid, uid) ==
  LET Keep(m) == m.conversation_id = cid /\ (uid = "" \/ m.user_id = uid)
  IN  SelectSeq(msgs, Keep)

\* ORDER BY created_at / sorted(key=created_at): ascending, rows of equal
\* creation time stay in their order.  rank[i] is the place row i takes,
\* at[k] the row that takes place k.
SortByCreatedAt(msgs) ==
  LET n == Len(msgs)
      rank == SubSeq([i \in 1..n |->
                        1 + Cardinality({j \in 1..n :
                              \/ msgs[j].created_at < msgs[i].created_at
                              \/ /\ msgs[j].created_at = msgs[i].created_at
                                 /\ j < i})], 1, n)
      at == SubSeq([k \in 1..n |-> CHOOSE i \in 1..n : rank[i] = k], 1, n)
  IN  [k \in 1..n |-> msgs[at[k]]]

\* seq[-n:] for n > 0
LastN(seq, n) == SubSeq(seq, Len(seq) - Min(n, Len(seq)) + 1, Len(seq))

\* query.offset(offset).limit(limit)
OffsetLimit(seq, offset, limit) ==
  SubSeq(seq, offset + 1, Min(Len(seq), offset + limit))

\* MessageRepository.list_by_conversation(db, conversation_id, limit, offset, user_id)
list_by_conversation(msgs, conversation_id, limit, offset, user_id) ==
  OffsetLimit(SortByCreatedAt(Filter(msgs, conversation_id, user_id)),
              offset, limit)

\* ThreadItemConverter.message_to_thread_item
message_to_thread_item(m) == [role |-> m.role, content |-> m.content]

\* ThreadItemConverter.messages_to_thread_items(messages, limit); limit is
\* None or an int
messages_to_thread_items(msgs, limit) ==
  IF msgs = <<>> THEN <<>>
  ELSE LET sorted_messages == SortByCreatedAt(msgs)
           kept == IF limit.k = "none"
                     THEN IF Len(sorted_messages) > PaginateOver
                            THEN LastN(sorted_messages, PaginateKeep)
                            ELSE sorted_messages
                   ELSE IF limit.n > 0 /\ Len(sorted_messages) > limit.n
                     THEN LastN(sorted_messages, limit.n)
                   ELSE sorted_messages
       IN  [i \in 1..Len(kept) |-> message_to_thread_item(kept[i])]

\* AgentContextBuilder.build_context(user_id, conversation_id, message_limit):
\* the returned dict and the conversation table after the call.
\* conversation_id is None or an int ("if conversation_id:" tests truthiness).
ContextError(uid) ==
  [status |-> "error", message |-> "Conversation not found",
   conversation_id |-> 0, user_id |-> uid, conversation_history |-> <<>>,
   message_count |-> 0]

build_context(user_id, conversation_id, message_limit, convs, msgs) ==
  IF Truthy(conversation_id)
       /\ ConversationRead(convs, user_id, conversation_id.n) = {}
    THEN [out |-> ContextError(user_id), conversations |-> convs]
  ELSE LET convs2 == IF Truthy(conversation_id) THEN convs
                     ELSE ConversationCreate(convs, user_id)
           cid == IF Truthy(conversation_id) THEN conversation_id.n
                  ELSE NextConversationId(convs)
           loaded == list_by_conversation(msgs, cid, ListDefaultLimit, 0, user_id)
       IN  [out |-> [status |-> "success", message |-> "",
                     conversation_id |-> cid, user_id |-> user_id,
                     conversation_history |->
                       messages_to_thread_items(loaded, message_limit),
                     message_count |-> Len(loaded)],
            conversations |-> convs2]

(***************************************************************************)
(* IDMapper.  Provider ids and provider names are strings, kept as         *)
(* sequences of pieces so that the audit entry f"{name}_{id}" is a real    *)
(* concatenation.                                                          *)
(***************************************************************************)
NewMapper == [provider_id_map |-> <<>>, audit_map |-> <<>>, id_counter |-> 0]

AuditEntry(provider_id, provider_name) == provider_name \o <<"_">> \o provider_id

\* a key that tells apart the providers of one id
MapKey_WithProvider(provider_id, provider_name) == provider_name \o provider_id

\* the key under which a provider id is remembered
MapKey(provider_id, provider_name) == provider_id

\* IDMapper.map_provider_id: the returned id and the mapper after the call
map_provider_id(mp, provider_id, provider_name) ==
  LET key == MapKey(provider_id, provider_name)
  IN  IF key \in DOMAIN mp.provider_id_map
        THEN [ret |-> mp.provider_id_map[key], mapper |-> mp]
        ELSE LET unique_id == IdBase + mp.id_counter + 1
             IN  [ret |-> unique_id,
                  mapper |->
                    [provider_id_map |->
                       [x \in DOMAIN mp.provider_id_map \cup {key} |->
                          IF x = key THEN unique_id ELSE mp.provider_id_map[x]],
                     audit_map |->
                       [x \in DOMAIN mp.audit_map \cup {unique_id} |->
                          IF x = unique_id
                            THEN AuditEntry(provider_id, provider_name)
                            ELSE mp.audit_map[x]],
                     id_counter |-> mp.id_counter + 1]]

\* IDMapper.get_original_id: the audit entry, <<>> for None
get_original_id(mp, unique_id) ==
  IF unique_id \in DOMAIN mp.audit_map THEN mp.audit_map[unique_id] ELSE <<>>

\* a reset that clears the mappings and keeps the audit trail
reset_KeepAudit(mp) == [NewMapper EXCEPT !.audit_map = mp.audit_map]

\* a reset that clears the mappings and keeps the counter
reset_KeepCounter(mp) == [NewMapper EXCEPT !.id_counter = mp.id_counter]

\* IDMapper.reset
reset(mp) == NewMapper

\* get_id_mapper: the module-level instance, made on first use and handed
\* out again on every later call
get_id_mapper(mp) == mp

(***************************************************************************)
(* Agent runner.                                                           *)
(***************************************************************************)
AgentResponse(response, tool_calls, error) ==
  [response |-> response, tool_calls |-> tool_calls, error |-> error,
   success |-> error = ""]

NoResponse == AgentResponse(<<>>, <<>>, "")

\* user-facing texts and error strings of run() and _execute_agent
SorryTimeout == <<Tok("word", "I'm taking too long to think. Please try again.")>>
SorryUnexpected == <<Tok("word", "An unexpected error occurred. Please try again.")>>
SorryInit == <<Tok("word", "Failed to initialize agent")>>
SorryContext == <<Tok("word", "Failed to build conversation context")>>
SorryStart == <<Tok("word", "I'm having trouble starting. Please try again.")>>
FinalText == <<Tok("word", "final")>>

\* AgentRunner._convert_messages on the thread items of the history
_convert_messages(conversation_history) ==
  [i \in 1..Len(conversation_history) |->
     [role |-> conversation_history[i].role,
      content |-> conversation_history[i].content]]

\* the params dict as _invoke_tool leaves it: user_id set when it was not there
InjectUserId(user_id, tool_input) ==
  IF tool_input.user_id.k = "absent"
    THEN [tool_input EXCEPT !.user_id = PyStr(user_id)]
    ELSE tool_input

\* AgentRunner._invoke_tool(user_id, tool_name, tool_input) for one parsed
\* entry: the tool result, the task table after it and the params as left
\* behind.  Params that are not a dict make the injection raise TypeError,
\* which _invoke_tool turns into tool_invocation_failed.
_invoke_tool(user_id, e, tbl) ==
  IF e.pk \in {"none", "list"}
    THEN [result |-> ErrorResult("tool_invocation_failed", 0), tasks |-> tbl,
          params |-> e.params]
    ELSE LET tool_input == InjectUserId(user_id, e.params)
             out == call_tool(e.name, tool_input, tbl)
         IN  [result |-> out.result, tasks |-> out.tasks, params |-> tool_input]

\* a loop that gives up at the first tool error
NextCursor_StopOnError(cur, n, res) == IF res.error # "" THEN n + 1 ELSE cur + 1

\* the loop of _run_agent_with_tools moves to the next entry whatever the
\* result of the current one was
NextCursor(cur, n, res) == cur + 1

\* a follow-up made whether or not an outcome was recorded
NeedsSynthesis_Always(tool_results) == TRUE

\* "if tool_results:" the follow-up completion is made when at least one
\* outcome was recorded
NeedsSynthesis(tool_results) == tool_results # <<>>

\* the response text after the follow-up: the follow-up's text when there is
\* one, the first-pass text when the call raised or returned nothing
SynthesisText(first_pass, follow_up) ==
  IF follow_up = "text" THEN FinalText ELSE first_pass

\* whether a step of the run gives control back to the event loop before it
\* completes.  The Groq SDK calls (chat.completions.create, iteration of the
\* stream) and call_tool are synchronous calls made inside the coroutine.
YieldsToLoop(step) == FALSE

\* asyncio.wait_for: the timer cancels the awaited coroutine only when the
\* coroutine is suspended in the event loop after the deadline
Cancelled(step, started, now) ==
  YieldsToLoop(step) /\ now - started >= TIMEOUT_SECONDS

(***************************************************************************)
(* State.                                                                  *)
(***************************************************************************)
VARIABLES
  tasks,             \* tasks table
  conversations,     \* conversations table
  messages,          \* messages table, in insertion order
  mapper,            \* the module-level IDMapper instance
  pc,                \* position of the request in chat_endpoint / the run
  req,               \* the request: authenticated user, conversation id, message
  context,           \* what build_context returned
  llm_messages,      \* message array of the primary completion
  response_text,     \* first-pass prose, then the follow-up text
  tools_identified,  \* entries the parser returned
  cursor,            \* index of the entry the dispatch loop is at
  tool_results,      \* outcomes recorded by the loop
  tool_calls_list,   \* tool calls recorded for the response
  agent_response,    \* what AgentRunner.run returned
  result,            \* what _execute_agent returned
  clock,             \* seconds since the request arrived
  started,           \* clock value when wait_for armed its timer
  call_log,          \* history: every call made through call_tool
  llm_log,           \* history: every LLM call (kind, latency)
  parse_call,        \* parser harness: input text and outputs
  ctx_call,          \* context-builder harness: arguments and result
  tool_call,         \* tool harness: last call_tool call
  map_call,          \* mapper harness: last mapper call
  map_log,           \* history: the first call of each (provider id,
                     \* provider name) pair since the last reset
  workers,           \* concurrent delete_task calls: position, arguments, result
  row_locks          \* task rows deleted by a transaction that is still open

vars == <<tasks, conversations, messages, mapper, pc, req, context,
          llm_messages, response_text, tools_identified, cursor, tool_results,
          tool_calls_list, agent_response, result, clock, started, call_log,
          llm_log, parse_call, ctx_call, tool_call, map_call, map_log,
          workers, row_locks>>

dbVars == <<tasks, conversations, messages>>
runVars == <<pc, req, context, llm_messages, response_text, tools_identified,
             cursor, tool_results, tool_calls_list, agent_response, result,
             clock, started, call_log, llm_log>>
delVars == <<workers, row_locks>>
harnessVars == <<parse_call, ctx_call, tool_call, map_call, map_log, delVars>>

NoCall == [op |-> "none"]
NoResult == [response |-> <<>>, tool_calls |-> <<>>, error |-> ""]
NoContext == [status |-> "none", message |-> "", conversation_id |-> 0,
              user_id |-> "", conversation_history |-> <<>>, message_count |-> 0]
NoRequest == [user |-> "", conversation_id |-> None, message |-> <<>>,
              direct |-> FALSE]

Text(x) == <<Tok("word", x)>>

\* the tables the requests of the model start from: one conversation of u1
\* with one earlier exchange, one task of each user
InitTasks == {NewTask(1, "u1", "Milk", None), NewTask(2, "u2", "milk", None)}
InitConversations == {[id |-> 1, user_id |-> "u1"]}
InitMessages ==
  <<Message(1, 1, "u1", "user", Text("m1"), 1),
    Message(2, 1, "u1", "assistant", Text("m2"), 2)>>

IdleRun ==
  /\ pc = "idle" /\ req = NoRequest /\ context = NoContext
  /\ llm_messages = <<>> /\ response_text = <<>> /\ tools_identified = <<>>
  /\ cursor = 1 /\ tool_results = <<>> /\ tool_calls_list = <<>>
  /\ agent_response = NoResponse /\ result = NoResult
  /\ clock = 0 /\ started = 0 /\ call_log = <<>> /\ llm_log = <<>>

IdleHarness ==
  /\ parse_call = NoCall /\ ctx_call = NoCall /\ tool_call = NoCall
  /\ map_call = NoCall /\ map_log = {}
  /\ workers = <<>> /\ row_locks = {}

Init ==
  /\ tasks = InitTasks
  /\ conversations = InitConversations
  /\ messages = InitMessages
  /\ mapper = NewMapper
  /\ IdleRun
  /\ IdleHarness

(***************************************************************************)
(* What the model may answer.                                              *)
(***************************************************************************)
SeqsUpTo(S, n) == UNION {[1..k -> S] : k \in 0..n}

Params(uid, tid, ttl) ==
  [NoParams EXCEPT !.user_id = uid, !.task_id = tid, !.title = ttl]

RunEntries ==
  { Entry("add_task", "dict", Params(Absent, Absent, PyStr("eggs"))),
    Entry("add_task", "dict", Params(Absent, Absent, PyStr(""))),
    Entry("complete_task", "dict", Params(Absent, PyInt(1), Absent)),
    Entry("complete_task", "dict", Params(PyStr("u2"), PyInt(2), Absent)),
    Entry("delete_task", "dict", Params(Absent, PyInt(9), Absent)),
    Entry("list_tasks", "absent", NoParams),
    Entry("no_such_tool", "dict", NoParams),
    Entry("", "dict", NoParams),
    Entry("complete_task", "none", NoParams),
    ScalarEntry }

WellFormedDocs == {Doc("dict", "list", es) : es \in SeqsUpTo(RunEntries, MaxTools)}

OddDocs ==
  { InvalidDoc, Doc("scalar", "absent", <<>>), Doc("list", "absent", <<>>),
    Doc("dict", "absent", <<>>), Doc("dict", "int", <<>>),
    Doc("dict", "none", <<>>), Doc("dict", "str", <<ScalarEntry>>),
    Doc("dict", "dict", <<ScalarEntry>>) }

OneCallDoc ==
  Doc("dict", "list",
      <<Entry("add_task", "dict", Params(Absent, Absent, PyStr("eggs")))>>)

ModelOutputs ==
  {<<Word>>}
  \cup {<<Word, Ws, OpenU, Json(d), CloseU>> : d \in WellFormedDocs \cup OddDocs}
  \cup {<<Word, OpenL, Json(OneCallDoc), CloseL>>,
        <<Word, OpenM, Json(OneCallDoc), CloseM>>,
        <<OpenU, Json(OneCallDoc), CloseU>>}

Latencies == {1, TIMEOUT_SECONDS + 1}

(***************************************************************************)
(* chat_endpoint, _execute_agent and AgentRunner.run, one request.         *)
(***************************************************************************)
\* chat_endpoint steps 1-3: conversation retrieval, user message stored
ChatEndpoint ==
  /\ pc = "idle"
  /\ \E u \in Users, cid \in {None, PyInt(1)} :
       LET found == Truthy(cid) /\ ConversationRead(conversations, u, cid.n) # {}
           conversation_id == IF Truthy(cid) THEN cid.n
                              ELSE NextConversationId(conversations)
       IN  /\ req' = [user |-> u, conversation_id |-> PyInt(conversation_id),
                      message |-> Text("hi"), direct |-> FALSE]
           /\ IF Truthy(cid) /\ ~found
                THEN /\ pc' = "done"
                     /\ result' = [response |-> <<>>, tool_calls |-> <<>>,
                                   error |-> "http_500"]
                     /\ UNCHANGED <<conversations, messages, clock>>
                ELSE /\ pc' = "context"
                     /\ conversations' = IF Truthy(cid) THEN conversations
                                         ELSE ConversationCreate(conversations, u)
                     /\ messages' = MessageCreate(messages, u, conversation_id,
                                                  "user", Text("hi"), clock + 3)
                     /\ clock' = clock + 3
                     /\ UNCHANGED result
  /\ UNCHANGED <<tasks, mapper, context, llm_messages, response_text,
                 tools_identified, cursor, tool_results, tool_calls_list,
                 agent_response, started, call_log, llm_log, harnessVars>>

\* _execute_agent: build_context and its status check
BuildContext ==
  /\ pc = "context"
  /\ LET built == build_context(req.user, req.conversation_id, None,
                                conversations, messages)
     IN  /\ context' = built.out
         /\ conversations' = built.conversations
         /\ IF built.out.status # "success"
              THEN /\ result' = [response |-> SorryContext, tool_calls |-> <<>>,
                                 error |-> "context_building_failed"]
                   /\ pc' = "respond"
              ELSE /\ pc' = "init"
                   /\ UNCHANGED result
  /\ UNCHANGED <<tasks, messages, mapper, req, llm_messages, response_text,
                 tools_identified, cursor, tool_results, tool_calls_list,
                 agent_response, clock, started, call_log, llm_log, harnessVars>>

\* _execute_agent: AgentRunner(), initialize_agent(); run() up to wait_for:
\* history converted, new user message appended, timer armed
InitializeAgent ==
  /\ pc = "init"
  /\ \E api_key_set \in BOOLEAN :
       IF ~api_key_set
         THEN /\ result' = [response |-> SorryInit, tool_calls |-> <<>>,
                            error |-> "agent_initialization_failed"]
              /\ pc' = "respond"
              /\ UNCHANGED <<llm_messages, started>>
         ELSE /\ llm_messages' =
                   Append(_convert_messages(context.conversation_history),
                          [role |-> "user", content |-> req.message])
              /\ started' = clock
              /\ pc' = "llm"
              /\ UNCHANGED result
  /\ UNCHANGED <<dbVars, mapper, req, context, response_text, tools_identified,
                 cursor, tool_results, tool_calls_list, agent_response, clock,
                 call_log, llm_log, harnessVars>>

\* AgentRunner().run(...) called without initialize_agent() before it, on a
\* history the caller supplies: run() initializes the client itself
RunDirect ==
  /\ pc = "idle"
  /\ \E u \in Users, api_key_set \in BOOLEAN,
        conversation_history \in
          {<<>>, [i \in 1..Len(InitMessages) |->
                    message_to_thread_item(InitMessages[i])]} :
       /\ req' = [user |-> u, conversation_id |-> PyInt(1),
                  message |-> Text("hi"), direct |-> TRUE]
       /\ IF ~api_key_set
            THEN /\ agent_response' =
                      AgentResponse(SorryStart, <<>>,
                                    "Failed to initialize Groq agent")
                 /\ pc' = "return"
                 /\ UNCHANGED <<llm_messages, started>>
            ELSE /\ llm_messages' =
                      Append(_convert_messages(conversation_history),
                             [role |-> "user", content |-> Text("hi")])
                 /\ started' = clock
                 /\ pc' = "llm"
                 /\ UNCHANGED agent_response
  /\ UNCHANGED <<dbVars, mapper, context, response_text, tools_identified,
                 cursor, tool_results, tool_calls_list, result, clock,
                 call_log, llm_log, harnessVars>>

\* an error response that lists the tools dispatched before the exception
Failed_KeepTools(e) == AgentResponse(SorryUnexpected, tool_calls_list, e)

\* an exception reported without a text for the user
Failed_NoText(e) == AgentResponse(<<>>, <<>>, e)

\* how run() reports an exception that left _execute_agent_loop
Failed(e) == AgentResponse(SorryUnexpected, <<>>, e)
\* the coroutine was cancelled by wait_for's timer at a suspension point
CancelledRun == AgentResponse(<<>>, <<>>, "CancelledError")

\* primary completion: extract_tool_calls streams the answer, parses it and
\* cuts the prose
PrimaryCompletion ==
  /\ pc = "llm"
  /\ \E full_response \in ModelOutputs, d \in Latencies :
       LET parsed == _parse_tool_calls_from_response(full_response)
       IN  /\ clock' = clock + d
           /\ llm_log' = Append(llm_log, [kind |-> "primary", latency |-> d,
                                     outcome |-> "text",
                                     text |-> full_response,
                                     tools_done |-> Len(call_log)])
           /\ IF Cancelled("llm", started, clock + d)
                THEN /\ agent_response' = CancelledRun
                     /\ pc' = "return"
                     /\ UNCHANGED <<tools_identified, response_text>>
              ELSE IF parsed.raised
                THEN /\ agent_response' = Failed("TypeError")
                     /\ pc' = "return"
                     /\ UNCHANGED <<tools_identified, response_text>>
              ELSE /\ tools_identified' = ToolsOf(parsed.data)
                   /\ response_text' = _extract_response_text(full_response)
                   /\ pc' = "tools"
                   /\ UNCHANGED agent_response
  /\ UNCHANGED <<dbVars, mapper, req, context, llm_messages, cursor,
                 tool_results, tool_calls_list, result, started, call_log,
                 harnessVars>>

\* the provider call raises (API error): the exception leaves the run
PrimaryFails ==
  /\ pc = "llm"
  /\ \E d \in Latencies :
       /\ clock' = clock + d
       /\ llm_log' = Append(llm_log, [kind |-> "primary", latency |-> d,
                                       outcome |-> "error", text |-> <<>>,
                                       tools_done |-> Len(call_log)])
       /\ agent_response' = IF Cancelled("llm", started, clock + d)
                              THEN CancelledRun ELSE Failed("APIError")
  /\ pc' = "return"
  /\ UNCHANGED <<dbVars, mapper, req, context, llm_messages, response_text,
                 tools_identified, cursor, tool_results, tool_calls_list,
                 result, started, call_log, harnessVars>>

\* the provider call never returns: the synchronous call keeps the event
\* loop, no timer runs
PrimaryHangs ==
  /\ pc = "llm"
  /\ IF Cancelled("llm", started, started + TIMEOUT_SECONDS)
       THEN /\ agent_response' = CancelledRun
            /\ clock' = started + TIMEOUT_SECONDS
            /\ pc' = "return"
       ELSE /\ pc' = "blocked"
            /\ UNCHANGED <<agent_response, clock>>
  /\ llm_log' = Append(llm_log, [kind |-> "primary", latency |-> -1,
                                  outcome |-> "hang", text |-> <<>>,
                                  tools_done |-> Len(call_log)])
  /\ UNCHANGED <<dbVars, mapper, req, context, llm_messages, response_text,
                 tools_identified, cursor, tool_results, tool_calls_list,
                 result, started, call_log, harnessVars>>

\* one iteration of "for tool_spec in tools_identified"
DispatchTool ==
  /\ pc = "tools"
  /\ cursor <= Len(tools_identified)
  /\ LET tool_spec == tools_identified[cursor]
         inv == _invoke_tool(req.user, tool_spec, tasks)
     IN  IF tool_spec.ek # "dict"
           \* tool_spec.get raises, and raises again in the except clause
           THEN /\ agent_response' = Failed("AttributeError")
                /\ pc' = "return"
                /\ UNCHANGED <<tasks, cursor, tool_results, tool_calls_list,
                               call_log>>
         ELSE IF tool_spec.name = ""
           THEN /\ cursor' = cursor + 1
                /\ UNCHANGED <<tasks, pc, tool_results, tool_calls_list,
                               call_log, agent_response>>
         ELSE /\ tasks' = inv.tasks
              /\ tool_results' =
                   Append(tool_results,
                          [tool |-> tool_spec.name, pk |-> tool_spec.pk,
                           params |-> inv.params, result |-> inv.result,
                           success |-> inv.result.error = ""])
              /\ tool_calls_list' =
                   Append(tool_calls_list,
                          [tool |-> tool_spec.name, pk |-> tool_spec.pk,
                           params |-> inv.params])
              /\ call_log' =
                   Append(call_log,
                          [idx |-> cursor, tool |-> tool_spec.name,
                           called |-> tool_spec.pk \in {"absent", "dict"},
                           user_id |-> inv.params.user_id,
                           result |-> inv.result, before |-> tasks,
                           at |-> clock, llm_done |-> Len(llm_log)])
              /\ IF Cancelled("tool", started, clock)
                   THEN /\ agent_response' = CancelledRun
                        /\ pc' = "return"
                        /\ UNCHANGED cursor
                   ELSE /\ cursor' = NextCursor(cursor, Len(tools_identified),
                                                inv.result)
                        /\ UNCHANGED <<pc, agent_response>>
  /\ UNCHANGED <<conversations, messages, mapper, req, context, llm_messages,
                 response_text, tools_identified, result, clock, started,
                 llm_log, harnessVars>>

\* the loop is over and outcomes were recorded: follow-up completion
SynthesisPass ==
  /\ pc = "tools"
  /\ cursor > Len(tools_identified)
  /\ NeedsSynthesis(tool_results)
  /\ \E d \in Latencies, follow_up \in {"text", "empty", "raise"} :
       /\ clock' = clock + d
       /\ llm_log' = Append(llm_log, [kind |-> "follow_up", latency |-> d,
                                       outcome |-> follow_up,
                                       text |-> IF follow_up = "text"
                                                  THEN FinalText ELSE <<>>,
                                       tools_done |-> Len(call_log)])
       /\ response_text' = SynthesisText(response_text, follow_up)
       /\ agent_response' =
            IF Cancelled("llm", started, clock + d) THEN CancelledRun
            ELSE AgentResponse(response_text', tool_calls_list, "")
  /\ pc' = "return"
  /\ UNCHANGED <<dbVars, mapper, req, context, llm_messages, tools_identified,
                 cursor, tool_results, tool_calls_list, result, started,
                 call_log, harnessVars>>

\* the loop is over and nothing was recorded: no second call
NoSynthesis ==
  /\ pc = "tools"
  /\ cursor > Len(tools_identified)
  /\ ~NeedsSynthesis(tool_results)
  /\ agent_response' = AgentResponse(response_text, tool_calls_list, "")
  /\ pc' = "return"
  /\ UNCHANGED <<dbVars, mapper, req, context, llm_messages, response_text,
                 tools_identified, cursor, tool_results, tool_calls_list,
                 result, clock, started, call_log, llm_log, harnessVars>>

\* _execute_agent after wait_for(agent_runner.run(...)): the returned dict
ReturnResult ==
  /\ pc = "return"
  /\ ~req.direct
  /\ result' =
       IF agent_response.error = "CancelledError"
         THEN [response |-> SorryTimeout, tool_calls |-> <<>>,
               error |-> "timeout"]
         ELSE [response |-> agent_response.response,
               tool_calls |-> agent_response.tool_calls,
               error |-> agent_response.error]
  /\ pc' = "respond"
  /\ UNCHANGED <<dbVars, mapper, req, context, llm_messages, response_text,
                 tools_identified, cursor, tool_results, tool_calls_list,
                 agent_response, clock, started, call_log, llm_log,
                 harnessVars>>

\* chat_endpoint steps 5-6: HTTP 500 on an error, else the assistant
\* message is stored and the response formatted
Respond ==
  /\ pc = "respond"
  /\ messages' =
       IF result.error # "" THEN messages
       ELSE MessageCreate(messages, req.user, req.conversation_id.n,
                          "assistant", result.response, clock + 1)
  /\ clock' = IF result.error # "" THEN clock ELSE clock + 1
  /\ pc' = "done"
  /\ UNCHANGED <<tasks, conversations, mapper, req, context, llm_messages,
                 response_text, tools_identified, cursor, tool_results,
                 tool_calls_list, agent_response, result, started, call_log,
                 llm_log, harnessVars>>

Next ==
  \/ ChatEndpoint
  \/ BuildContext
  \/ InitializeAgent
  \/ RunDirect
  \/ PrimaryCompletion
  \/ PrimaryFails
  \/ PrimaryHangs
  \/ DispatchTool
  \/ SynthesisPass
  \/ NoSynthesis
  \/ ReturnResult
  \/ Respond

Spec == Init /\ [][Next]_vars

(***************************************************************************)
(* The parser applied to free-form responses.                              *)
(***************************************************************************)
DocA ==
  Doc("dict", "list",
      <<Entry("add_task", "dict", Params(Absent, Absent, PyStr("eggs"))),
        Entry("complete_task", "dict", Params(Absent, PyInt(1), Absent))>>)
DocB ==
  Doc("dict", "list",
      <<Entry("list_tasks", "absent", NoParams)>>)

Casings == {"U", "L", "M"}

ParseAlphabet ==
  {Open(c) : c \in Casings} \cup {Close(c) : c \in Casings}
  \cup {Word, Ws, Json(DocA), Json(DocB)}

TwoBlockTexts ==
  {<<Open(a), Json(DocA), Close(a), Ws, Open(b), Json(DocB), Close(b)>> :
     a \in {"U", "L"}, b \in {"U", "L"}}

ParseInputs == SeqsUpTo(ParseAlphabet, MaxTextLen) \cup TwoBlockTexts

InitParse ==
  /\ tasks = InitTasks /\ conversations = InitConversations
  /\ messages = InitMessages /\ mapper = NewMapper
  /\ IdleRun
  /\ ctx_call = NoCall /\ tool_call = NoCall /\ map_call = NoCall
  /\ map_log = {}
  /\ workers = <<>> /\ row_locks = {}
  /\ \E text \in ParseInputs :
       parse_call = [op |-> "pending", text |-> text, raised |-> FALSE,
                     tools |-> <<>>, prose |-> <<>>]

\* extract_tool_calls on a complete response: tools and prose
ParseResponse ==
  /\ parse_call.op = "pending"
  /\ LET parsed == _parse_tool_calls_from_response(parse_call.text)
     IN  parse_call' =
           [parse_call EXCEPT
              !.op = "parsed",
              !.raised = parsed.raised,
              !.tools = IF parsed.raised THEN <<>> ELSE ToolsOf(parsed.data),
              !.prose = IF parsed.raised THEN <<>>
                        ELSE _extract_response_text(parse_call.text)]
  /\ UNCHANGED <<dbVars, mapper, runVars, ctx_call, tool_call, map_call,
                 map_log,
                 delVars>>

NextParse == ParseResponse

SpecParse == InitParse /\ [][NextParse]_vars

(***************************************************************************)
(* The tools called directly through the registry.                         *)
(***************************************************************************)
ToolNames == TOOL_REGISTRY \cup {"no_such_tool"}

\* calls that carry a description: a string, a string over the cap, a number
DescribedInputs ==
  {[Params(PyStr("u1"), tid, ttl) EXCEPT !.description = d] :
     tid \in {Absent, PyInt(1)},
     ttl \in {Absent, PyStr("new")},
     d \in {PyStr("d"), PyStr(LongStr), PyInt(5)}}

\* delete_task calls that name the task by its title: the exact title, the
\* title in another letter case, a part of the title, an unknown title
NamedInputs ==
  {[Params(uid, tid, Absent) EXCEPT !.task_name = PyStr(name)] :
     uid \in {PyStr("u1"), PyStr("u2")},
     tid \in {Absent, PyInt(0)},
     name \in {"Milk", "milk", "Mil", "eggs"}}

\* calls that pass the empty string as title
EmptyTitleInputs ==
  {Params(PyStr("u1"), tid, PyStr("")) : tid \in {Absent, PyInt(1)}}

ToolInputs ==
  {Params(uid, tid, ttl) :
     uid \in {PyStr("u1"), PyStr("u2"), PyStr("")},
     tid \in {Absent, PyInt(-1), PyInt(0), PyInt(1), PyInt(2), PyInt(9),
              PyStr("1")},
     ttl \in {Absent, PyStr("new"), PyStr(LongStr)}}
  \cup DescribedInputs \cup NamedInputs \cup EmptyTitleInputs

InitTools ==
  /\ tasks = InitTasks /\ conversations = InitConversations
  /\ messages = InitMessages /\ mapper = NewMapper
  /\ IdleRun
  /\ parse_call = NoCall /\ ctx_call = NoCall /\ map_call = NoCall
  /\ map_log = {}
  /\ workers = <<>> /\ row_locks = {}
  /\ tool_call = [op |-> "none", n |-> 0, name |-> "", params |-> NoParams,
                  result |-> ErrorResult("", 0), before |-> InitTasks]

CallTool ==
  /\ tool_call.n < MaxCalls
  /\ \E name \in ToolNames, tool_input \in ToolInputs :
       LET out == call_tool(name, tool_input, tasks)
       IN  /\ tasks' = out.tasks
           /\ tool_call' = [op |-> "call_tool", n |-> tool_call.n + 1,
                            name |-> name, params |-> tool_input,
                            result |-> out.result, before |-> tasks]
  /\ UNCHANGED <<conversations, messages, mapper, runVars, parse_call,
                 ctx_call, map_call, map_log,
                 delVars>>

NextTools == CallTool

SpecTools == InitTools /\ [][NextTools]_vars

(***************************************************************************)
(* The context builder on stored conversations of every length.            *)
(***************************************************************************)
CtxConversations == {[id |-> 1, user_id |-> "u1"], [id |-> 2, user_id |-> "u2"]}

Role(i) == IF i % 2 = 1 THEN "user" ELSE "assistant"

\* a message table: two rows of conversation 2 (user u2), then n rows of
\* conversation 1 (user u1) written one after the other.  With skew the
\* last two rows carry creation times in the opposite order of their
\* insertion (written by two workers whose clocks differ).
StoredAt(i, n, skew) ==
  IF skew /\ n >= 2 /\ i = n THEN n - 1
  ELSE IF skew /\ n >= 2 /\ i = n - 1 THEN n
  ELSE i

StoreOf(n, skew) ==
  <<Message(1, 2, "u2", "user", Text("other-1"), 0),
    Message(2, 2, "u2", "assistant", Text("other-2"), 0)>>
  \o [i \in 1..n |->
        Message(i + 2, 1, "u1", Role(i), Text(ToString(i)),
                StoredAt(i, n, skew))]

CtxUsers == Users
CtxConversationIds == {None, PyInt(0), PyInt(1), PyInt(2), PyInt(3)}
CtxLimits == {None, PyInt(2), PyInt(PaginateKeep)}

InitCtx ==
  /\ tasks = InitTasks /\ mapper = NewMapper
  /\ conversations = CtxConversations
  /\ \E n \in 0..MaxStored, skew \in BOOLEAN : messages = StoreOf(n, skew)
  /\ IdleRun
  /\ parse_call = NoCall /\ tool_call = NoCall /\ map_call = NoCall
  /\ map_log = {}
  /\ workers = <<>> /\ row_locks = {}
  /\ ctx_call = [op |-> "none", user_id |-> "", conversation_id |-> None,
                 message_limit |-> None, out |-> NoContext,
                 before |-> CtxConversations]

CallBuildContext ==
  /\ ctx_call.op = "none"
  /\ \E user_id \in CtxUsers, conversation_id \in CtxConversationIds,
        message_limit \in CtxLimits :
       LET built == build_context(user_id, conversation_id, message_limit,
                                  conversations, messages)
       IN  /\ conversations' = built.conversations
           /\ ctx_call' = [op |-> "build_context", user_id |-> user_id,
                           conversation_id |-> conversation_id,
                           message_limit |-> message_limit,
                           out |-> built.out, before |-> conversations]
  /\ UNCHANGED <<tasks, messages, mapper, runVars, parse_call, tool_call,
                 map_call, map_log,
                 delVars>>

NextCtx == CallBuildContext

SpecCtx == InitCtx /\ [][NextCtx]_vars

(***************************************************************************)
(* The id mapper, one instance.                                            *)
(***************************************************************************)
Pid(i) == <<"msg", "_", ToString(i)>>
ProviderIds == {Pid(i) : i \in 1..MaxMapped}
ProviderNames == {<<"openai">>, <<"gemini">>}

InitMap ==
  /\ tasks = InitTasks /\ conversations = InitConversations
  /\ messages = InitMessages /\ mapper = NewMapper
  /\ IdleRun
  /\ parse_call = NoCall /\ ctx_call = NoCall /\ tool_call = NoCall
  /\ map_call = [op |-> "none", provider_id |-> <<>>, provider_name |-> <<>>,
                 unique_id |-> 0, ret |-> <<>>]
  /\ map_log = {}
  /\ workers = <<>> /\ row_locks = {}

MapProviderId ==
  /\ \E provider_id \in ProviderIds, provider_name \in ProviderNames :
       LET m == map_provider_id(mapper, provider_id, provider_name)
       IN  /\ mapper' = m.mapper
           /\ map_call' = [op |-> "map_provider_id",
                           provider_id |-> provider_id,
                           provider_name |-> provider_name,
                           unique_id |-> m.ret, ret |-> <<>>]
           /\ map_log' =
                IF \E a \in map_log : /\ a.provider_id = provider_id
                                      /\ a.provider_name = provider_name
                  THEN map_log
                  ELSE map_log \cup
                         {[provider_id |-> provider_id,
                           provider_name |-> provider_name,
                           unique_id |-> m.ret,
                           issued |-> MapKey(provider_id, provider_name)
                                        \notin DOMAIN mapper.provider_id_map]}
  /\ UNCHANGED <<dbVars, runVars, parse_call, ctx_call, tool_call,
                 delVars>>

GetOriginalId ==
  /\ \E unique_id \in IdBase..(IdBase + MaxMapped + 1) :
       map_call' = [op |-> "get_original_id", provider_id |-> <<>>,
                    provider_name |-> <<>>, unique_id |-> unique_id,
                    ret |-> get_original_id(mapper, unique_id)]
  /\ UNCHANGED <<dbVars, mapper, runVars, parse_call, ctx_call, tool_call,
                 map_log,
                 delVars>>

ResetMapper ==
  /\ mapper' = reset(mapper)
  /\ map_call' = [op |-> "reset", provider_id |-> <<>>, provider_name |-> <<>>,
                  unique_id |-> 0, ret |-> <<>>]
  /\ map_log' = {}
  /\ UNCHANGED <<dbVars, runVars, parse_call, ctx_call, tool_call,
                 delVars>>

\* AgentRunner.__init__: the runner of a new run takes its mapper from
\* get_id_mapper()
NewAgentRunner ==
  /\ mapper' = get_id_mapper(mapper)
  /\ map_call' = [op |-> "AgentRunner", provider_id |-> <<>>,
                  provider_name |-> <<>>, unique_id |-> 0, ret |-> <<>>]
  /\ UNCHANGED <<dbVars, runVars, parse_call, ctx_call, tool_call, map_log,
                 delVars>>

NextMap == MapProviderId \/ GetOriginalId \/ ResetMapper \/ NewAgentRunner

SpecMap == InitMap /\ [][NextMap]_vars

(***************************************************************************)
(* delete_task called by several workers of the server at the same time.   *)
(* Each call runs in its own database session; the sessions meet in the    *)
(* tasks table.  A call takes three steps: validation and lookup, the      *)
(* DELETE statement, flush and commit.  A DELETE of a row that another     *)
(* open transaction has deleted waits for that transaction to end.         *)
(***************************************************************************)
Workers == {1, 2}

DeleteInputs ==
  {Params(uid, tid, Absent) :
     uid \in {PyStr("u1"), PyStr("u2")}, tid \in {PyInt(1), PyInt(2)}}
  \cup {[Params(PyStr("u1"), Absent, Absent) EXCEPT !.task_name = PyStr(name)] :
          name \in {"Milk", "milk"}}

NewWorker(params) ==
  [pc |-> "start", params |-> params, found |-> {}, rowcount |-> 0,
   result |-> ErrorResult("", 0)]

InitDel ==
  /\ tasks = InitTasks /\ conversations = InitConversations
  /\ messages = InitMessages /\ mapper = NewMapper
  /\ IdleRun
  /\ parse_call = NoCall /\ ctx_call = NoCall /\ tool_call = NoCall
  /\ map_call = NoCall /\ map_log = {}
  /\ workers \in [Workers -> {NewWorker(params) : params \in DeleteInputs}]
  /\ row_locks = {}

\* delete_task up to the DELETE statement: validation, then the lookup by
\* id or by name on the committed rows.  A call that is going to delete has
\* found its task; every other call is over with the error it returns.
DeleteTaskLookup(p) ==
  /\ workers[p].pc = "start"
  /\ LET w == workers[p]
         out == delete_task(w.params, tasks)
     IN  workers' =
           IF out.result.error # ""
             THEN [workers EXCEPT ![p].pc = "done", ![p].result = out.result]
             ELSE [workers EXCEPT
                     ![p].pc = "found",
                     ![p].found = TaskRead(tasks, w.params.user_id.s,
                                           w.params.task_id.n)]
  /\ UNCHANGED <<dbVars, mapper, runVars, parse_call, ctx_call, tool_call,
                 map_call, map_log, row_locks>>

\* db.execute(DELETE ... WHERE id = task_id AND user_id = user_id): waits
\* while another open transaction holds the row, then deletes the rows
\* that are committed at that moment and reports how many they were
DeleteTaskExecute(p) ==
  /\ workers[p].pc = "found"
  /\ LET w == workers[p]
         rows == TaskRead(tasks, w.params.user_id.s, w.params.task_id.n)
     IN  /\ \A l \in row_locks : l.id = w.params.task_id.n => l.by = p
         /\ workers' = [workers EXCEPT ![p].pc = "executed",
                                       ![p].rowcount = Cardinality(rows)]
         /\ row_locks' = row_locks \cup {[id |-> t.id, by |-> p] : t \in rows}
  /\ UNCHANGED <<dbVars, mapper, runVars, parse_call, ctx_call, tool_call,
                 map_call, map_log>>

\* db.flush(), db.commit() and the rowcount check
DeleteTaskCommit(p) ==
  /\ workers[p].pc = "executed"
  /\ LET w == workers[p]
         t == CHOOSE t \in w.found : TRUE
     IN  /\ tasks' = {r \in tasks : [id |-> r.id, by |-> p] \notin row_locks}
         /\ row_locks' = {l \in row_locks : l.by # p}
         /\ workers' =
              [workers EXCEPT
                 ![p].pc = "done",
                 ![p].result =
                   IF w.rowcount = 0
                     THEN ErrorResult("task_deletion_failed", 0)
                     ELSE OkResult("deleted", t.id, t.title)]
  /\ UNCHANGED <<conversations, messages, mapper, runVars, parse_call,
                 ctx_call, tool_call, map_call, map_log>>

NextDel ==
  \E p \in Workers :
    \/ DeleteTaskLookup(p)
    \/ DeleteTaskExecute(p)
    \/ DeleteTaskCommit(p)

SpecDel == InitDel /\ [][NextDel]_vars

(***************************************************************************)
(* Properties.                                                             *)
(***************************************************************************)
Finished == pc \in {"respond", "done"}

\* indices of the entries, among the first k, that name a tool
NamedUpTo(k) ==
  {i \in 1..k : tools_identified[i].ek = "dict" /\ tools_identified[i].name # ""}

DispatchedIdx == {call_log[k].idx : k \in DOMAIN call_log}

WithoutUser(p) == [p EXCEPT !.user_id = Absent]

\* C1: the parsed invocations are dispatched one at a time in the order the
\* model emitted them, the recorded tool list keeps that order, and a tool
\* that returns an error does not stop the dispatch of the ones after it:
\* whenever the loop stands at an entry, every named entry before it has
\* been dispatched, and a successful response lists all of them in order.
C1_DispatchInOrder ==
  /\ \A i, j \in DOMAIN call_log : i < j => call_log[i].idx < call_log[j].idx
  /\ Len(tool_calls_list) = Len(call_log)
  /\ \A k \in DOMAIN call_log :
       LET e == tools_identified[call_log[k].idx]
       IN  /\ tool_calls_list[k].tool = e.name
           /\ WithoutUser(tool_calls_list[k].params) = WithoutUser(e.params)
  /\ pc = "tools" => DispatchedIdx = NamedUpTo(cursor - 1)
  /\ (Finished /\ result.error = "" /\ llm_log # <<>>) =>
       /\ result.tool_calls = tool_calls_list
       /\ DispatchedIdx = NamedUpTo(Len(tools_identified))

\* a finished run whose first tool returned an error and whose second tool
\* succeeded and changed the task table
C1_Witness ==
  /\ pc = "done" /\ result.error = ""
  /\ Len(result.tool_calls) = 2
  /\ call_log[1].result.error # "" /\ call_log[2].result.error = ""
  /\ tasks # InitTasks

\* C2: every tool call of a run for authenticated user U executes with
\* user_id = U, and the run leaves the tasks of every other user as they
\* were.
C2_ActsAsAuthenticatedUser ==
  /\ \A k \in DOMAIN call_log :
       call_log[k].called => call_log[k].user_id = PyStr(req.user)
  /\ req.user # "" =>
       {t \in tasks : t.user_id # req.user}
         = {t \in InitTasks : t.user_id # req.user}

\* C4: when the primary LLM call takes longer than TIMEOUT_SECONDS, the
\* run returns the error kind "timeout" with a non-empty response text.
C4_LatePrimaryIsTimeout ==
  (Finished /\ llm_log # <<>> /\ llm_log[1].latency > TIMEOUT_SECONDS) =>
    /\ result.error = "timeout"
    /\ result.response # <<>>

\* C6: whatever text the primary LLM call returned, the turn completes
\* without an orchestration error.
C6_AnyOutputCompletes ==
  (Finished /\ llm_log # <<>> /\ llm_log[1].outcome = "text") =>
    result.error = ""

(***************************************************************************)
(* Tools.                                                                  *)
(***************************************************************************)
Mutating == {"complete_task", "delete_task", "update_task"}

\* the rows of the table before the call that carry the task_id of the call
Target(c) ==
  {t \in c.before : IsInt(c.params.task_id) /\ t.id = c.params.task_id.n}

\* the call names an existing task that its user_id does not own
ForeignCall(c) ==
  /\ c.op = "call_tool" /\ c.name \in Mutating
  /\ Target(c) # {}
  /\ \A t \in Target(c) : PyStr(t.user_id) # c.params.user_id

\* the call passes the parameter validation of its tool
ValidCall(c) ==
  /\ ~InvalidUserId(c.params.user_id)
  /\ IsInt(c.params.task_id) /\ c.params.task_id.n > 0
  /\ c.name = "update_task" =>
       /\ Present(c.params) \cap {"title", "description"} # {}
       /\ \A key \in Present(c.params) \cap {"title", "description"} :
            IsStr(c.params[key]) /\ PyLen(c.params[key].s) <= MaxFieldLen
  /\ Present(c.params) \subseteq Accepted(c.name)

\* what the same call returns for a task id that is in no row
ResultForMissing(c) ==
  call_tool(c.name, [c.params EXCEPT !.task_id = PyInt(NextTaskId(c.before))],
            c.before).result

\* C3 as stated: a complete/delete/update call whose user_id does not own
\* the target returns task_not_found and leaves the task unchanged.
C3_ForeignIsNotFound ==
  ForeignCall(tool_call) =>
    /\ tool_call.result.error = "task_not_found"
    /\ Target(tool_call) \subseteq tasks

\* C3 amended: a call that passes parameter validation and whose user_id
\* does not own the target returns task_not_found; every call on a foreign
\* task, valid or not, returns what it returns for a task id that does not
\* exist and leaves the task's row (title, description, completed flag,
\* existence) unchanged.
C3_ForeignIsolated ==
  ForeignCall(tool_call) =>
    /\ ValidCall(tool_call) =>
         tool_call.result = ErrorResult("task_not_found", tool_call.params.task_id.n)
    /\ [tool_call.result EXCEPT !.ref = 0]
         = [ResultForMissing(tool_call) EXCEPT !.ref = 0]
    /\ Target(tool_call) \subseteq tasks

\* a valid update of another user's task was answered task_not_found
C3_Witness ==
  /\ ForeignCall(tool_call) /\ ValidCall(tool_call)
  /\ tool_call.name = "update_task"
  /\ tool_call.result.error = "task_not_found"

(***************************************************************************)
(* Parser.                                                                 *)
(***************************************************************************)
Markers(text, tt) == {i \in DOMAIN text : text[i].tt = tt}

\* one opening marker, then one JSON document with a "tools" list, then one
\* closing marker, each marker in any casing
SingleBlock(text) ==
  /\ Cardinality(Markers(text, "open")) = 1
  /\ Cardinality(Markers(text, "close")) = 1
  /\ \E i \in Markers(text, "open"), j \in Markers(text, "close") :
       /\ i < j
       /\ LET d == JsonLoads(Strip(SubSeq(text, i + 1, j - 1)))
          IN  d.dk = "dict" /\ d.tk = "list"

BlockDoc(text) ==
  LET i == CHOOSE i \in Markers(text, "open") : TRUE
      j == CHOOSE j \in Markers(text, "close") : TRUE
  IN  JsonLoads(Strip(SubSeq(text, i + 1, j - 1)))

BlockProse(text) ==
  LET i == CHOOSE i \in Markers(text, "open") : TRUE
  IN  Strip(SubSeq(text, 1, i - 1))

\* C5: for a response with one tool-call block whose markers are in any
\* casing (upper, lower or mixed, the closing one possibly cased differently
\* from the opening one), the parser returns the block's invocations in
\* order and, as prose, the trimmed text before the opening marker.
C5_AnyCasingParsed ==
  (parse_call.op = "parsed" /\ SingleBlock(parse_call.text)) =>
    /\ ~parse_call.raised
    /\ parse_call.tools = BlockDoc(parse_call.text).entries
    /\ parse_call.prose = BlockProse(parse_call.text)

(***************************************************************************)
(* Context.                                                                *)
(***************************************************************************)
\* every stored turn of the call's conversation, oldest first
Chronological(c) ==
  LET all == SortByCreatedAt(Filter(messages, c.out.conversation_id, c.user_id))
  IN  [i \in 1..Len(all) |-> message_to_thread_item(all[i])]

IsSuffix(s, t) == Len(s) <= Len(t) /\ s = LastN(t, Len(s))

Built(c) == c.op = "build_context" /\ c.out.status = "success"

\* C7: for a conversation holding more than PaginateOver turns and a call
\* without an explicit limit, the history is exactly the PaginateKeep most
\* recent turns, oldest first, the latest one last.
C7_LongHistoryKeepsMostRecent ==
  (/\ Built(ctx_call) /\ ctx_call.message_limit = None
   /\ Len(Chronological(ctx_call)) > PaginateOver) =>
    ctx_call.out.conversation_history
      = LastN(Chronological(ctx_call), PaginateKeep)

\* C8: the history is a suffix of the conversation's turns in
\* chronological order, its last element is the newest stored turn, and an
\* explicit limit L yields the min(L, total) most recent turns.
C8_HistoryIsSuffix ==
  Built(ctx_call) =>
    LET full == Chronological(ctx_call)
        hist == ctx_call.out.conversation_history
    IN  /\ IsSuffix(hist, full)
        /\ full # <<>> => hist # <<>> /\ hist[Len(hist)] = full[Len(full)]
        /\ ctx_call.message_limit # None =>
             Len(hist) = Min(ctx_call.message_limit.n, Len(full))

\* C9: a call with a conversation id that names no conversation of the
\* requester returns an error with an empty history and creates no row; a
\* row is created only when no id was given, and then exactly one, owned
\* by the requester.
C9_UnknownConversationRejected ==
  ctx_call.op = "build_context" =>
    LET given == ctx_call.conversation_id # None
        found == /\ given
                 /\ ConversationRead(ctx_call.before, ctx_call.user_id,
                                     ctx_call.conversation_id.n) # {}
    IN  /\ (given /\ ~found) =>
             /\ ctx_call.out.status = "error"
             /\ ctx_call.out.conversation_history = <<>>
             /\ conversations = ctx_call.before
        /\ conversations # ctx_call.before =>
             /\ ~given
             /\ \E c \in conversations \ ctx_call.before :
                  /\ conversations = ctx_call.before \cup {c}
                  /\ c.user_id = ctx_call.user_id

(***************************************************************************)
(* Mapper.                                                                 *)
(***************************************************************************)
\* C10: the same provider id mapped under two provider names gets two
\* different synthetic ids, and each synthetic id has its own audit entry
\* naming its provider.
C10_ProvidersKeptApart ==
  /\ \A a, b \in map_log :
       (a.provider_id = b.provider_id /\ a.provider_name # b.provider_name)
         => a.unique_id # b.unique_id
  /\ \A a \in map_log :
       get_original_id(mapper, a.unique_id)
         = AuditEntry(a.provider_id, a.provider_name)

\* C11: every orchestration run starts with a mapper that holds no mapping
\* and whose counter is at its initial value, so that no mapping made
\* during an earlier or concurrent request is visible to it.
C11_RunStartsWithFreshMapper ==
  map_call.op = "AgentRunner" => mapper = NewMapper

\* the run has returned from the primary completion onwards
Returned == pc \in {"return", "respond", "done"} /\ llm_log # <<>>

\* C12: every entry the parser returned contributes exactly one recorded
\* outcome, failed ones included, so the response's tool list is as long as
\* the list of parsed entries.
C12_OneOutcomePerEntry ==
  (Returned /\ llm_log[1].outcome = "text") =>
    /\ Len(agent_response.tool_calls) = Len(tools_identified)
    /\ Len(tool_results) = Len(tools_identified)

\* the prose of the first pass, cut from the text of the primary completion
FirstPassProse == _extract_response_text(llm_log[1].text)

\* C13: the follow-up (synthesis) completion is made if and only if at
\* least one tool outcome was recorded in the run; when it raises or
\* returns empty text the run still returns without error and its response
\* text is the first-pass prose.
C13_SynthesisIsBestEffort ==
  Returned =>
    /\ (\E i \in DOMAIN llm_log : llm_log[i].kind = "follow_up")
         <=> tool_results # <<>>
    /\ \A i \in DOMAIN llm_log :
         (llm_log[i].kind = "follow_up" /\ llm_log[i].outcome # "text") =>
           /\ agent_response.error = ""
           /\ agent_response.response = FirstPassProse

\* run() has come back to its caller
RunReturned ==
  /\ pc \in {"return", "respond", "done"}
  /\ llm_log # <<>> \/ req.direct

ErrorKinds == {"agent_initialization_failed", "timeout", "unexpected_error"}

\* C15: the error that _execute_agent reports for a failed turn is one of
\* the three kinds agent_initialization_failed, timeout, unexpected_error.
C15_ErrorIsOneOfThreeKinds ==
  (Finished /\ context.status # "none" /\ result.error # "") =>
    result.error \in ErrorKinds

\* the task table as the last dispatched tool left it
AfterLastTool ==
  LET c == call_log[Len(call_log)]
  IN  _invoke_tool(req.user, tools_identified[c.idx], c.before).tasks

\* C16: when the timeout expires after one or more tools completed (here:
\* during the follow-up completion), the turn returns the timeout error,
\* the effects of the completed tools are kept, and no tool is dispatched
\* after the expiry.
C16_TimeoutAfterToolsKeepsEffects ==
  (/\ Finished /\ Len(llm_log) = 2 /\ call_log # <<>>
   /\ llm_log[1].latency <= TIMEOUT_SECONDS
   /\ llm_log[1].latency + llm_log[2].latency > TIMEOUT_SECONDS) =>
    /\ result.error = "timeout"
    /\ tasks = AfterLastTool
    /\ \A k \in DOMAIN call_log : call_log[k].at - started <= TIMEOUT_SECONDS

PriorTurns ==
  LET prior == SortByCreatedAt(Filter(InitMessages, req.conversation_id.n,
                                      req.user))
  IN  [i \in 1..Len(prior) |->
         [role |-> prior[i].role, content |-> prior[i].content]]

NewTurn == [role |-> "user", content |-> req.message]

\* C18: for a turn handled through the chat endpoint, the message array of
\* the primary completion is the conversation's prior turns in
\* chronological order followed by the new user message, which appears
\* exactly once, as the last element.
C18_NewMessageSentOnce ==
  (~req.direct /\ llm_messages # <<>>) =>
    /\ llm_messages = Append(PriorTurns, NewTurn)
    /\ Cardinality({i \in DOMAIN llm_messages : llm_messages[i] = NewTurn}) = 1

NoMarker(text) == Markers(text, "open") \cup Markers(text, "close") = {}

\* one opening marker, then text that is not JSON, then one closing
\* marker, each marker in any casing
InvalidBlock(text) ==
  /\ Cardinality(Markers(text, "open")) = 1
  /\ Cardinality(Markers(text, "close")) = 1
  /\ \E i \in Markers(text, "open"), j \in Markers(text, "close") : i < j
  /\ BlockDoc(text).dk = "invalid"

\* C19: the parser returns an empty tool list without raising when the text
\* holds no marker and when the markers enclose text that is not valid
\* JSON; the prose is the full text in the first case and the (trimmed)
\* text before the opening marker in the second.
C19_DegradesToEmptyTools ==
  parse_call.op = "parsed" =>
    /\ NoMarker(parse_call.text) =>
         /\ ~parse_call.raised
         /\ parse_call.tools = <<>>
         /\ parse_call.prose = parse_call.text
    /\ InvalidBlock(parse_call.text) =>
         /\ ~parse_call.raised
         /\ parse_call.tools = <<>>
         /\ parse_call.prose = BlockProse(parse_call.text)

MappedIds == {a.provider_id : a \in map_log}
IssuedIds == {a.unique_id : a \in map_log}

\* C21 as stated: the synthetic ids of a fresh or reset mapper start at
\* IdBase (1000) and increase by one per provider id mapped for the first
\* time; every issued id is at least IdBase.
C21_IdsStartAtBase ==
  /\ IssuedIds = IdBase..(IdBase + Cardinality(MappedIds) - 1)
  /\ \A s \in IssuedIds : s >= IdBase

\* C21 amended: the synthetic ids of a fresh or reset mapper start at
\* IdBase + 1 (1001) and increase by one per provider id mapped for the
\* first time, so the ids issued since then are exactly IdBase + 1 ..
\* IdBase + n for n mapped provider ids, the counter is n, and every issued
\* id is greater than IdBase.
C21_IdsStartAfterBase ==
  /\ IssuedIds = (IdBase + 1)..(IdBase + Cardinality(MappedIds))
  /\ mapper.id_counter = Cardinality(MappedIds)
  /\ \A s \in IssuedIds : s > IdBase
  /\ map_call.op = "map_provider_id" => map_call.unique_id \in IssuedIds

\* a second provider id was mapped for the first time and got IdBase + 2
C21_Witness ==
  /\ map_call.op = "map_provider_id"
  /\ map_call.unique_id = IdBase + 2
  /\ Cardinality(MappedIds) = 2

\* the keyword arguments of the call do not fit the signature of the tool
BadSignature(c) ==
  \/ ~(Present(c.params) \subseteq Accepted(c.name))
  \/ ~(Required(c.name) \subseteq Present(c.params))

\* C22: call_tool never raises.  An unregistered name returns
\* tool_not_found and runs no tool (the task table is as before); an
\* exception that leaves the tool function, the TypeError of missing or
\* unexpected keyword arguments and the one of a parameter of the wrong type
\* included, is returned as tool_execution_failed.
C22_CallToolNeverRaises ==
  tool_call.op = "call_tool" =>
    /\ tool_call.result.error # "raised"
    /\ tool_call.name \notin TOOL_REGISTRY =>
         /\ tool_call.result = ErrorResult("tool_not_found", 0)
         /\ tasks = tool_call.before
    /\ (tool_call.name \in TOOL_REGISTRY /\ BadSignature(tool_call)) =>
         /\ tool_call.result.error = "tool_execution_failed"
         /\ tasks = tool_call.before
    /\ (/\ tool_call.name \in TOOL_REGISTRY /\ ~BadSignature(tool_call)
        /\ ToolFunc(tool_call.name, tool_call.params,
                    tool_call.before).result.error = "raised") =>
         tool_call.result.error = "tool_execution_failed"

\* add_task was called with a number as description: len() raised inside
\* the tool and the call returned tool_execution_failed
C22_Witness ==
  /\ tool_call.op = "call_tool" /\ tool_call.name = "add_task"
  /\ ~BadSignature(tool_call)
  /\ tool_call.params.description = PyInt(5)
  /\ tool_call.result.error = "tool_execution_failed"

\* a task_id was passed and it is not a positive integer
NotPositiveInt(v) == v.k # "absent" /\ ~(IsInt(v) /\ v.n > 0)

\* C23: complete_task, delete_task and update_task, called by a valid user
\* with a task_id that is not a positive integer (zero and negative numbers
\* included), return the structured error invalid_task_id and leave the
\* task table as it was.
C23_NonPositiveIdRejected ==
  (/\ tool_call.op = "call_tool" /\ tool_call.name \in Mutating
   /\ ~BadSignature(tool_call)
   /\ ~InvalidUserId(tool_call.params.user_id)
   /\ NotPositiveInt(tool_call.params.task_id)) =>
    /\ tool_call.result.error = "invalid_task_id"
    /\ tasks = tool_call.before

\* the call is a delete_task by name: valid user, no usable task_id, a
\* non-empty string as task_name
DeleteByName(c) ==
  /\ c.op = "call_tool" /\ c.name = "delete_task"
  /\ ~BadSignature(c)
  /\ ~InvalidUserId(c.params.user_id)
  /\ ~Truthy(c.params.task_id)
  /\ Truthy(c.params.task_name) /\ IsStr(c.params.task_name)

\* the tasks of the caller the name selects: those whose title equals it,
\* or else those whose title equals it ignoring letter case
SelectedByName(c) ==
  LET own == {t \in c.before : PyStr(t.user_id) = c.params.user_id}
      exact == {t \in own : t.title = c.params.task_name.s}
      nocase == {t \in own : Lower(t.title) = Lower(c.params.task_name.s)}
  IN  IF exact # {} THEN exact ELSE nocase

\* C24: delete_task called with a task_name deletes one task of the caller
\* whose title equals the name exactly when there is one, otherwise one
\* whose title equals it ignoring letter case, and otherwise returns
\* task_not_found and deletes nothing; a task whose title only contains the
\* name is never deleted.
C24_DeleteByNamePrefersExact ==
  DeleteByName(tool_call) =>
    IF SelectedByName(tool_call) = {}
      THEN /\ tool_call.result.error = "task_not_found"
           /\ tasks = tool_call.before
      ELSE \E t \in SelectedByName(tool_call) :
             /\ tool_call.result = OkResult("deleted", t.id, t.title)
             /\ tasks = tool_call.before \ {t}

\* the stored rows a history was built from, one per history entry (role
\* and content identify a row of the store)
SourceRows(hist) ==
  [i \in DOMAIN hist |->
     {k \in DOMAIN messages : message_to_thread_item(messages[k]) = hist[i]}]

\* C25: every history build_context returns is in ascending order of
\* creation time and holds only turns stored under the requested
\* conversation and the requesting user, and that conversation is the
\* requester's; a call that fails returns no turn at all.
C25_HistoryOrderedAndOwned ==
  ctx_call.op = "build_context" =>
    LET hist == ctx_call.out.conversation_history
        src == SourceRows(hist)
    IN  /\ ctx_call.out.status # "success" => hist = <<>>
        /\ hist # <<>> =>
             ConversationRead(conversations, ctx_call.user_id,
                              ctx_call.out.conversation_id) # {}
        /\ \A i \in DOMAIN hist :
             /\ src[i] # {}
             /\ \A k \in src[i] :
                  /\ messages[k].conversation_id = ctx_call.out.conversation_id
                  /\ messages[k].user_id = ctx_call.user_id
        /\ \A i \in 1..(Len(hist) - 1) :
             \A a \in src[i], b \in src[i + 1] :
               messages[a].created_at <= messages[b].created_at

\* a history of several turns was built from a store whose last two rows
\* were written in the opposite order of their creation times, next to the
\* rows of another user's conversation
C25_Witness ==
  /\ Built(ctx_call) /\ ctx_call.user_id = "u1"
  /\ Len(ctx_call.out.conversation_history) >= 3
  /\ messages[Len(messages)].created_at < messages[Len(messages) - 1].created_at
  /\ \E k \in DOMAIN messages : messages[k].user_id = "u2"

\* position of the first opening marker in upper or lower case
FirstOpen(text) ==
  CHOOSE i \in Markers(text, "open") : \A j \in Markers(text, "open") : i <= j

\* the text holds two tool-call blocks, one in each of the casings the
\* parser knows, each closed by the marker of its own casing and holding a
\* JSON document with a "tools" list
BothCasings(text) ==
  /\ Cardinality(Markers(text, "open")) = 2
  /\ Cardinality(Markers(text, "close")) = 2
  /\ Find(text, OpenU) > 0 /\ Find(text, OpenL) > 0
  /\ \A c \in {"U", "L"} :
       /\ Find(text, Open(c)) < Find(text, Close(c))
       /\ LET d == JsonLoads(Strip(SubSeq(text, Find(text, Open(c)) + 1,
                                          Find(text, Close(c)) - 1)))
          IN  d.dk = "dict" /\ d.tk = "list"

\* the document of the block the first opening marker opens
FirstBlockDoc(text) ==
  LET i == FirstOpen(text)
      j == Find(text, Close(text[i].cs))
  IN  JsonLoads(Strip(SubSeq(text, i + 1, j - 1)))

\* C26: when the response holds tool-call blocks in both marker casings,
\* the tools are those of the block opened by the first marker occurrence
\* in the text, the occurrence at which the prose is cut off.
C26_FirstBlockIsParsed ==
  (parse_call.op = "parsed" /\ BothCasings(parse_call.text)) =>
    /\ ~parse_call.raised
    /\ parse_call.prose
         = Strip(SubSeq(parse_call.text, 1, FirstOpen(parse_call.text) - 1))
    /\ parse_call.tools = FirstBlockDoc(parse_call.text).entries

\* C27: every response returned with an error set, by run() and by
\* _execute_agent, carries an empty tool list, whatever tools were
\* executed and committed in the run before the error occurred.
C27_ErrorResponseHasNoTools ==
  /\ (RunReturned /\ agent_response.error # "") =>
       agent_response.tool_calls = <<>>
  /\ (Finished /\ result.error # "") => result.tool_calls = <<>>

\* _execute_agent returned an error after a tool of the run had been
\* recorded and had changed the task table
C27_Witness ==
  /\ pc = "respond" /\ result.error # ""
  /\ tool_calls_list # <<>>
  /\ tasks # InitTasks

\* C28: after any sequence of tool calls, add_task and update_task among
\* them, every stored task has a non-empty title of at most MaxFieldLen
\* characters and a description that is absent or a string of at most
\* MaxFieldLen characters.
C28_StoredFieldsWithinBounds ==
  \A t \in tasks :
    /\ t.title # ""
    /\ PyLen(t.title) <= MaxFieldLen
    /\ \/ t.description.k = "none"
       \/ IsStr(t.description) /\ PyLen(t.description.s) <= MaxFieldLen

\* the task of the caller a delete_task call is aimed at, by id or by name
AimedAt(params) ==
  IF Truthy(params.task_id)
    THEN TaskRead(InitTasks, params.user_id.s, params.task_id.n)
    ELSE SelectedByName([before |-> InitTasks, params |-> params])

\* the two calls are made by the same user for the same existing task
SameTarget ==
  /\ workers[1].params.user_id = workers[2].params.user_id
  /\ AimedAt(workers[1].params) # {}
  /\ AimedAt(workers[1].params) = AimedAt(workers[2].params)

\* C29: when two delete_task calls of one user for the same existing task
\* run concurrently and both are over, at most one of them has returned
\* status deleted, every call that has not returned deleted has returned
\* task_not_found or task_deletion_failed, and the task is no longer in
\* the table.
C29_ConcurrentDeleteOnce ==
  (/\ workers # <<>> /\ \A p \in Workers : workers[p].pc = "done"
   /\ SameTarget) =>
    /\ Cardinality({p \in Workers : workers[p].result.status = "deleted"}) <= 1
    /\ \A p \in Workers :
         workers[p].result.status # "deleted" =>
           workers[p].result.error \in {"task_not_found", "task_deletion_failed"}
    /\ AimedAt(workers[1].params) \cap tasks = {}

\* the calls, since the mapper was made or last reset, that mapped a
\* provider id for the first time and so issued a synthetic id
Issuing == {a \in map_log : a.issued}

\* what get_original_id has to return for s: the audit entry of the call
\* that issued s, nothing (None) when no call has issued s since the last
\* reset
AuditOf(s) ==
  IF \E a \in Issuing : a.unique_id = s
    THEN LET a == CHOOSE a \in Issuing : a.unique_id = s
         IN  AuditEntry(a.provider_id, a.provider_name)
    ELSE <<>>

====
